---- MODULE Spec2Model ----
(***************************************************************************)
(* A model of paritysteg.py: the bit/byte converters, the image low-bit    *)
(* stream, the repeating-key XOR, the cover-text parity codec, the word    *)
(* recommendation search and its randomized driver, and main's dispatch.   *)
(*                                                                         *)
(* Text is a sequence of one-character strings; a parity string is text    *)
(* over the characters "0" and "1", as in the code.  A bit list is a       *)
(* sequence of the integers 0 and 1.  A bytestring is a sequence of        *)
(* integers in 0..255.                                                     *)
(***************************************************************************)
EXTENDS Integers, Sequences, FiniteSets, TLC

VARIABLES
    pc,          \* position of the running operation
    args,        \* the arguments of the operation (argparse's args, or a direct call's)
    web2,        \* the order in which list(web2lowerset) enumerates the dictionary
    locals,      \* the local variables of the running function
    returned     \* what the operation returned or printed

vars == <<pc, args, web2, locals, returned>>

Nothing == "None"

(***************************************************************************)
(* Characters                                                              *)
(***************************************************************************)
ascii_uppercase ==
    <<"A","B","C","D","E","F","G","H","I","J","K","L","M",
      "N","O","P","Q","R","S","T","U","V","W","X","Y","Z">>

ascii_lowercase ==
    <<"a","b","c","d","e","f","g","h","i","j","k","l","m",
      "n","o","p","q","r","s","t","u","v","w","x","y","z">>

\* The characters of the model's texts, in code-point order.
Ascii == <<" ", ",", "0", "1">> \o ascii_uppercase \o ascii_lowercase

Range(s) == {s[i] : i \in DOMAIN s}

UpperTable ==
    [c \in Range(Ascii) |->
        IF \E i \in 1..26 : ascii_lowercase[i] = c
        THEN ascii_uppercase[CHOOSE i \in 1..26 : ascii_lowercase[i] = c]
        ELSE c]

upper(c) == UpperTable[c]

\* code points
OrdTable ==
    [c \in Range(Ascii) |->
        IF \E i \in 1..26 : ascii_uppercase[i] = c
        THEN 64 + (CHOOSE i \in 1..26 : ascii_uppercase[i] = c)
        ELSE IF \E i \in 1..26 : ascii_lowercase[i] = c
        THEN 96 + (CHOOSE i \in 1..26 : ascii_lowercase[i] = c)
        ELSE IF c = " " THEN 32 ELSE IF c = "," THEN 44 ELSE IF c = "0" THEN 48 ELSE 49]

ord(c) == OrdTable[c]

\* [A-Z] under re.I
IsLetter(c) == upper(c) \in Range(ascii_uppercase)

VowelSet == {"A", "E", "I", "O", "U", "Y"}

\* [aeiouy] under re.I
IsVowel(c) == upper(c) \in VowelSet

DEFAULT_GROUPA == <<"E","A","H","I","S","L","U","M","C","B","K","J","Q">>

DEFAULT_GROUPB == <<"T","O","N","R","D","W","F","Y","G","P","V","X","Z">>

Take(s, n) == SubSeq(s, 1, IF n < Len(s) THEN n ELSE Len(s))

Drop(s, n) == SubSeq(s, n + 1, Len(s))

(***************************************************************************)
(* Bits and bytes                                                          *)
(***************************************************************************)
RECURSIVE Pow2(_)
Pow2(n) == IF n = 0 THEN 1 ELSE 2 * Pow2(n - 1)

\* BitArray(b).bin of one byte: eight characters '0'/'1', most significant first
ByteBin(b) == [k \in 1..8 |-> IF (b \div Pow2(8 - k)) % 2 = 1 THEN "1" ELSE "0"]

\* int(x) of a character '0' or '1'
int(x) == IF x = "1" THEN 1 ELSE 0

\* [int(x) for x in s]
Digits(s) == [i \in 1..Len(s) |-> int(s[i])]

RECURSIVE bits_from_bytestring(_)
bits_from_bytestring(bytestring) ==
    IF bytestring = <<>> THEN <<>>
    ELSE ByteBin(Head(bytestring)) \o bits_from_bytestring(Tail(bytestring))

\* a variant that zero-pads a short group instead of dropping it
bytes_from_bits_padded(bit_list) ==
    LET n == Len(bit_list)
        bit(k) == IF k <= n THEN bit_list[k] ELSE 0
    IN  IF n = 0 THEN <<>>
        ELSE << bit(8) + bit(7) * 2 + bit(6) * 4 + bit(5) * 8
              + bit(4) * 16 + bit(3) * 32 + bit(2) * 64 + bit(1) * 128 >>

bytes_from_bits(bit_list) ==
    LET n == Len(bit_list) IN
    IF n < 8 THEN <<>>
    ELSE << bit_list[n]
          + bit_list[n - 1] * Pow2(1)
          + bit_list[n - 2] * Pow2(2)
          + bit_list[n - 3] * Pow2(3)
          + bit_list[n - 4] * Pow2(4)
          + bit_list[n - 5] * Pow2(5)
          + bit_list[n - 6] * Pow2(6)
          + bit_list[n - 7] * Pow2(7) >>

\* bit_list[b:b+8]
Slice8(bit_list, b) ==
    SubSeq(bit_list, b + 1, IF b + 8 < Len(bit_list) THEN b + 8 ELSE Len(bit_list))

RECURSIVE BytestringFrom(_, _)
BytestringFrom(bit_list, b) ==
    IF b >= Len(bit_list) THEN <<>>
    ELSE bytes_from_bits(Slice8(bit_list, b)) \o BytestringFrom(bit_list, b + 8)

bytestring_from_bits(bit_list) == BytestringFrom(bit_list, 0)

(***************************************************************************)
(* The image's low-bit stream                                              *)
(***************************************************************************)
PixelBits(p) == <<p[1] % 2, p[2] % 2, p[3] % 2>>

\* the inner loop over the pixels of one row, with its break
RECURSIVE ScanRow(_, _, _, _)
ScanRow(row, p, acc, bits) ==
    IF p > Len(row) THEN acc
    ELSE LET a == acc \o PixelBits(row[p]) IN
         IF Len(a) > bits THEN a ELSE ScanRow(row, p + 1, a, bits)

\* the outer loop over the rows, with its break
RECURSIVE ScanImage(_, _, _, _)
ScanImage(img, r, acc, bits) ==
    IF r > Len(img) THEN acc
    ELSE LET a == ScanRow(img[r], 1, acc, bits) IN
         IF Len(a) > bits THEN a ELSE ScanImage(img, r + 1, a, bits)

get_stream_from_image(img, bytes) ==
    LET bits == bytes * 8 IN
    bytestring_from_bits(Take(ScanImage(img, 1, <<>>, bits), bits))

(***************************************************************************)
(* XOR                                                                     *)
(***************************************************************************)
\* the raised exception, as a value no bytestring equals
IndexError == <<-1>>

RECURSIVE XorInt(_, _)
XorInt(a, b) ==
    IF a = 0 /\ b = 0 THEN 0
    ELSE (((a % 2) + (b % 2)) % 2) + 2 * XorInt(a \div 2, b \div 2)

\* msgbytes[i] ^ imgbytes[i] for i in range(len(msgbytes)); imgbytes[i] raises
\* IndexError when imgbytes is the shorter
xor_bytes(msgbytes, imgbytes) ==
    IF imgbytes = IndexError \/ msgbytes = IndexError THEN IndexError
    ELSE IF Len(imgbytes) < Len(msgbytes) THEN IndexError
    ELSE [i \in 1..Len(msgbytes) |-> XorInt(msgbytes[i], imgbytes[i])]

\* while len(key) < len(otherbytes): key += key   (called with a non-empty key)
RECURSIVE ExpandKey(_, _)
ExpandKey(key, n) == IF Len(key) < n THEN ExpandKey(key \o key, n) ELSE key

\* the statements after the while loop
XorKeyTail(key, otherbytes) == xor_bytes(Take(key, Len(otherbytes)), otherbytes)

xor_key(key, otherbytes) ==
    IF otherbytes = IndexError THEN IndexError
    ELSE XorKeyTail(ExpandKey(key, Len(otherbytes)), otherbytes)

(***************************************************************************)
(* The cover-text parity codec                                             *)
(***************************************************************************)
\* the length of the run of letters of s that starts at position p
RECURSIVE LetterRun(_, _)
LetterRun(s, p) ==
    IF p > Len(s) \/ ~ IsLetter(s[p]) THEN 0 ELSE 1 + LetterRun(s, p + 1)

\* the length of the run of letters that ends s
RECURSIVE TrailingRun(_)
TrailingRun(s) ==
    IF s = <<>> \/ ~ IsLetter(s[Len(s)]) THEN 0
    ELSE 1 + TrailingRun(SubSeq(s, 1, Len(s) - 1))

\* the character bounding a short word: [^A-Z] in a cover, a space in the dictionary
IsDelim(c, spaces) == IF spaces THEN c = " " ELSE ~ IsLetter(c)

\* re.sub(D + '[A-Z]{1,3}' + D, '', s): leftmost matches, none overlapping, each
\* removed with both of its bounding characters
RECURSIVE SubMiddle(_, _, _)
SubMiddle(s, p, spaces) ==
    IF p > Len(s) THEN <<>>
    ELSE LET r == LetterRun(s, p + 1) IN
         IF /\ IsDelim(s[p], spaces)
            /\ r \in 1..3
            /\ p + r + 1 <= Len(s)
            /\ IsDelim(s[p + r + 1], spaces)
         THEN SubMiddle(s, p + r + 2, spaces)
         ELSE <<s[p]>> \o SubMiddle(s, p + 1, spaces)

\* re.sub('^[A-Z]{1,3}' + D, '', s)
SubStart(s, spaces) ==
    LET r == LetterRun(s, 1) IN
    IF r \in 1..3 /\ r + 1 <= Len(s) /\ IsDelim(s[r + 1], spaces)
    THEN Drop(s, r + 1) ELSE s

\* re.sub(D + '[A-Z]{1,3}$', '', s)
SubEnd(s, spaces) ==
    LET t == TrailingRun(s) IN
    IF t \in 1..3 /\ Len(s) - t >= 1 /\ IsDelim(s[Len(s) - t], spaces)
    THEN Take(s, Len(s) - t - 1) ELSE s

\* the three substitutions, in the code's order: middle, start, end
StripShortWords(s, spaces) == SubEnd(SubStart(SubMiddle(s, 1, spaces), spaces), spaces)

NotVowel(c) == ~ IsVowel(c)

\* re.sub('[aeiouy]', '', s, flags=re.I)
StripVowels(s) == SelectSeq(s, NotVowel)

\* re.findall('^[A-Z]') then re.findall('[^A-Z][A-Z]'), the last character of each
RECURSIVE FirstLetters(_, _)
FirstLetters(s, p) ==
    IF p > Len(s) THEN <<>>
    ELSE (IF IsLetter(s[p]) /\ (p = 1 \/ ~ IsLetter(s[p - 1])) THEN <<s[p]>> ELSE <<>>)
         \o FirstLetters(s, p + 1)

\* whether c matches the character class '[group]' under re.I
InClass(c, group) == \E j \in DOMAIN group : upper(group[j]) = upper(c)

NotDigit(c) == c \notin {"0", "1"}

IsDigit(c) == c \in {"0", "1"}

cover_to_bits(cover, groupa, groupb) ==
    LET stripped == SelectSeq(cover, NotDigit)
        zeroed == [i \in 1..Len(stripped) |->
                     IF InClass(stripped[i], groupa) THEN "0" ELSE stripped[i]]
        oned == [i \in 1..Len(zeroed) |->
                     IF InClass(zeroed[i], groupb) THEN "1" ELSE zeroed[i]]
    IN  Digits(SelectSeq(oned, IsDigit))

\* decode, down to the bit list of the cover (the spec's textToBits)
textToBits(cover, groupa, groupb, vowels, small, byword) ==
    LET c1 == IF ~ small THEN StripShortWords(cover, FALSE) ELSE cover
        c2 == IF ~ vowels THEN StripVowels(c1) ELSE c1
        c3 == IF byword THEN FirstLetters(c2, 1) ELSE c2
    IN  cover_to_bits(c3, groupa, groupb)

\* textstring.encode('ascii')
get_stream_from_text(textstring) == [i \in 1..Len(textstring) |-> ord(textstring[i])]

\* encode, up to the bytestring whose bits are the parity
EncodeBytes(message, img, key) ==
    LET msgbytes == get_stream_from_text(message)
        imgbytes == get_stream_from_image(img, Len(msgbytes))
        xxx == xor_bytes(msgbytes, imgbytes)
    IN  IF key # <<>> THEN xor_key(key, xxx) ELSE xxx

encode(message, img, key) ==
    LET xxx == EncodeBytes(message, img, key) IN
    IF xxx = IndexError THEN IndexError ELSE bits_from_bytestring(xxx)

\* a variant that never removes the key
decode_unkeyed(cover, img, groupa, groupb, vowels, small, byword, key) ==
    LET coverbytes == bytestring_from_bits(
                          textToBits(cover, groupa, groupb, vowels, small, byword))
    IN  xor_bytes(coverbytes, get_stream_from_image(img, Len(coverbytes)))

decode(cover, img, groupa, groupb, vowels, small, byword, key) ==
    LET coverbytes == bytestring_from_bits(
                          textToBits(cover, groupa, groupb, vowels, small, byword))
        imgbytes == get_stream_from_image(img, Len(coverbytes))
        keyed == IF key # <<>> THEN xor_key(key, imgbytes) ELSE imgbytes
    IN  xor_bytes(coverbytes, keyed)

(***************************************************************************)
(* The word search                                                         *)
(*                                                                         *)
(* A regular expression built by make_parity_string is a sequence of       *)
(* elements, each a character class (a set of upper-case letters, matched  *)
(* under re.I) that is either taken once or starred.                       *)
(***************************************************************************)
ClassOf(group) == [chars |-> {upper(group[j]) : j \in DOMAIN group}, star |-> FALSE]

VowelStar == [chars |-> VowelSet, star |-> TRUE]

LetterStar == [chars |-> Range(ascii_uppercase), star |-> TRUE]

\* one class per parity character, each followed by '[AEIOUY]*' when vowels are ignored
RECURSIVE ParityClasses(_, _, _, _)
ParityClasses(parity, zeroes, ones, vowels) ==
    IF parity = <<>> THEN <<>>
    ELSE (IF Head(parity) = "0" THEN <<ClassOf(zeroes)>>
          ELSE IF Head(parity) = "1" THEN <<ClassOf(ones)>>
          ELSE <<>>)
         \o (IF ~ vowels THEN <<VowelStar>> ELSE <<>>)
         \o ParityClasses(Tail(parity), zeroes, ones, vowels)

make_parity_string(parity, zeroes, ones, vowels, byword) ==
    LET start == IF ~ vowels THEN <<VowelStar>> ELSE <<>>
        zs == IF ~ vowels THEN StripVowels(zeroes) ELSE zeroes
        os == IF ~ vowels THEN StripVowels(ones) ELSE ones
    IN  IF parity = <<>> THEN <<>>
        ELSE IF byword
        THEN (IF parity[1] = "0" THEN <<ClassOf(zs)>>
              ELSE IF parity[1] = "1" THEN <<ClassOf(os)>>
              ELSE start)
             \o <<LetterStar>>
        ELSE start \o ParityClasses(parity, zs, os, vowels)

\* whether the regular expression re, from its element j on, matches exactly
\* the characters of w from position i on
RECURSIVE MatchFrom(_, _, _, _)
MatchFrom(w, i, re, j) ==
    IF j > Len(re) THEN i > Len(w)
    ELSE LET here == i <= Len(w) /\ upper(w[i]) \in re[j].chars IN
         IF re[j].star
         THEN MatchFrom(w, i, re, j + 1) \/ (here /\ MatchFrom(w, i + 1, re, j))
         ELSE here /\ MatchFrom(w, i + 1, re, j + 1)

\* the position of the first space of s at or after p, or 0
RECURSIVE NextSpace(_, _)
NextSpace(s, p) ==
    IF p > Len(s) THEN 0 ELSE IF s[p] = " " THEN p ELSE NextSpace(s, p + 1)

\* re.findall(' ' + re + ' ', s, flags=re.I), each match stripped: no class matches
\* a space, so a match runs from one space to the next, and takes both
RECURSIVE FindAll(_, _, _)
FindAll(s, p, re) ==
    IF p > Len(s) THEN <<>>
    ELSE LET q == NextSpace(s, p + 1) IN
         IF s[p] = " " /\ q # 0 /\ MatchFrom(SubSeq(s, p + 1, q - 1), 1, re, 1)
         THEN <<SubSeq(s, p + 1, q - 1)>> \o FindAll(s, q + 1, re)
         ELSE FindAll(s, p + 1, re)

\* str's order: by code point, a proper prefix first
RECURSIVE StrLess(_, _)
StrLess(a, b) ==
    IF b = <<>> THEN FALSE
    ELSE IF a = <<>> THEN TRUE
    ELSE IF ord(Head(a)) # ord(Head(b)) THEN ord(Head(a)) < ord(Head(b))
    ELSE StrLess(Tail(a), Tail(b))

RECURSIVE Insert(_, _)
Insert(w, sorted) ==
    IF sorted = <<>> THEN <<w>>
    ELSE IF StrLess(w, Head(sorted)) THEN <<w>> \o sorted
    ELSE <<Head(sorted)>> \o Insert(w, Tail(sorted))

\* pout.sort()
RECURSIVE Sorted(_)
Sorted(ws) == IF ws = <<>> THEN <<>> ELSE Insert(Head(ws), Sorted(Tail(ws)))

RECURSIVE JoinWith(_, _)
JoinWith(ws, sep) ==
    IF ws = <<>> THEN <<>>
    ELSE IF Len(ws) = 1 THEN ws[1]
    ELSE ws[1] \o sep \o JoinWith(Tail(ws), sep)

\* ' '.join(list(web2lowerset)), the set enumerated in the order words
get_dictionary_string(words) == JoinWith(words, <<" ">>)

\* pout_total.append([pstring, p, parity[i:]]) for each p of pout
Candidates(pstring, pout, rest) == [n \in 1..Len(pout) |-> <<pstring, pout[n], rest>>]

\* the loop over i in range(len(c), len(parity)), with its break in by-word mode
RECURSIVE RecommendLoop(_, _, _, _, _, _, _, _)
RecommendLoop(i, k, parity, zeroes, ones, vowels, byword, allwords) ==
    IF i >= Len(parity) THEN <<>>
    ELSE LET pstring == SubSeq(parity, k + 1, i + 1)
             parityre == make_parity_string(pstring, zeroes, ones, vowels, byword)
             pout == Sorted(FindAll(allwords, 1, parityre))
             found == Candidates(pstring, pout, SubSeq(parity, i + 1, Len(parity)))
         IN  IF pout # <<>> /\ byword THEN found
             ELSE found \o RecommendLoop(i + 1, k, parity, zeroes, ones,
                                         vowels, byword, allwords)

\* c: the parity bits the cover written so far has spent
SpentBits(cover, zeroes, ones, vowels) ==
    cover_to_bits(IF ~ vowels THEN StripVowels(cover) ELSE cover, zeroes, ones)

recommend_words(parity, cover, zeroes, ones, vowels, small, byword, words) ==
    LET joined == get_dictionary_string(words)
        allwords == IF ~ small THEN StripShortWords(joined, TRUE) ELSE joined
        c == SpentBits(cover, zeroes, ones, vowels)
    IN  RecommendLoop(Len(c), Len(c), parity, zeroes, ones, vowels, byword, allwords)

(***************************************************************************)
(* Direct calls of the converters                                          *)
(***************************************************************************)
MaxBytes == 2

MaxBits == 9

ByteValues == {0, 1, 65, 128, 255}

SeqsUpTo(S, n) == UNION {[1..m -> S] : m \in 0..n}

InitBits ==
    /\ web2 = <<>>
    /\ returned = Nothing
    /\ \/ /\ pc = "bits_from_bytestring"
          /\ args \in [fn : {"bits_from_bytestring"},
                      bytestring : SeqsUpTo(ByteValues, MaxBytes)]
          /\ locals = [bit_list |-> <<>>]
       \/ /\ pc = "bytestring_from_bits"
          /\ args = [fn |-> "bytestring_from_bits", bytestring |-> <<>>]
          /\ locals \in [bit_list : SeqsUpTo({0, 1}, MaxBits)]

\* bits_from_bytestring, its characters then read as digits (as line 196 reads them)
CallBitsFromBytestring ==
    /\ pc = "bits_from_bytestring"
    /\ locals' = [bit_list |-> Digits(bits_from_bytestring(args.bytestring))]
    /\ pc' = "bytestring_from_bits"
    /\ UNCHANGED <<args, web2, returned>>

CallBytestringFromBits ==
    /\ pc = "bytestring_from_bits"
    /\ returned' = bytestring_from_bits(locals.bit_list)
    /\ pc' = "done"
    /\ UNCHANGED <<args, web2, locals>>

NextBits == CallBitsFromBytestring \/ CallBytestringFromBits

SpecBits == InitBits /\ [][NextBits]_vars

\* bit k (1 = most significant) of byte b
BitOf(b, k) == (b \div Pow2(8 - k)) % 2

MaxRows == 2

MaxCols == 2

MaxImageBytes == 2

\* pixels with every combination the scan distinguishes kept small: the low
\* bits of the three channels, with other bits set or clear
Pixels == {<<254, 254, 254>>, <<255, 0, 1>>, <<2, 255, 128>>, <<1, 1, 255>>}

ImagesOf(rows, cols) == [1..rows -> [1..cols -> Pixels]]

InitImage ==
    /\ pc = "get_stream_from_image"
    /\ web2 = <<>>
    /\ locals = <<>>
    /\ returned = Nothing
    /\ \E rows \in 1..MaxRows, cols \in 1..MaxCols :
          args \in [img : ImagesOf(rows, cols), bytes : 0..MaxImageBytes]

CallGetStreamFromImage ==
    /\ pc = "get_stream_from_image"
    /\ returned' = get_stream_from_image(args.img, args.bytes)
    /\ pc' = "done"
    /\ UNCHANGED <<args, web2, locals>>

NextImage == CallGetStreamFromImage

SpecImage == InitImage /\ [][NextImage]_vars

\* the low bits of all channels of the image, row-major, channels 0,1,2
RECURSIVE Flatten(_)
Flatten(ss) == IF ss = <<>> THEN <<>> ELSE Head(ss) \o Flatten(Tail(ss))

ChannelLowBits(img) ==
    Flatten([r \in 1..Len(img) |->
        Flatten([c \in 1..Len(img[r]) |->
            [ch \in 1..3 |-> img[r][c][ch] % 2]])])

\* the explicit failure, as a value no bytestring equals
InsufficientSource == <<-2>>

(* C5: the extraction returns exactly N bytes, the first 8N channel low     *)
(* bits in row-major order, or, when the image holds fewer than 8N channel  *)
(* bits, an explicit InsufficientSource failure; never fewer than N bytes.  *)
C5_NeverUnderSupplies ==
    pc = "done" =>
        IF Len(ChannelLowBits(args.img)) < 8 * args.bytes
        THEN returned = InsufficientSource
        ELSE /\ returned # InsufficientSource
             /\ Len(returned) = args.bytes
             /\ \A j \in 1..args.bytes : \A k \in 1..8 :
                   BitOf(returned[j], k) = ChannelLowBits(args.img)[8 * (j - 1) + k]

(***************************************************************************)
(* Direct calls of xor_key, twice over: xor_key(K, xor_key(K, D))           *)
(***************************************************************************)
MaxKeyLen == 2

MaxDataLen == 3

KeyBytes == {0, 107, 255}

DataBytes == {0, 65, 254}

InitKey ==
    /\ pc = "xor_key"
    /\ web2 = <<>>
    /\ returned = <<>>
    /\ args \in [key : SeqsUpTo(KeyBytes, MaxKeyLen),
                 otherbytes : SeqsUpTo(DataBytes, MaxDataLen)]
    /\ locals = [key |-> args.key, otherbytes |-> args.otherbytes]

\* while len(key) < len(otherbytes): the test holds, the body is entered
XorKeyWhile ==
    /\ pc = "xor_key"
    /\ Len(locals.key) < Len(locals.otherbytes)
    /\ pc' = "key += key"
    /\ UNCHANGED <<args, web2, locals, returned>>

\* key += key, then back to the test
XorKeyDouble ==
    /\ pc = "key += key"
    /\ locals' = [locals EXCEPT !.key = locals.key \o locals.key]
    /\ pc' = "xor_key"
    /\ UNCHANGED <<args, web2, returned>>

\* the loop's exit and the rest of xor_key; the first result is the second call's data
XorKeyReturn ==
    /\ pc = "xor_key"
    /\ ~ (Len(locals.key) < Len(locals.otherbytes))
    /\ LET result == XorKeyTail(locals.key, locals.otherbytes) IN
       /\ returned' = Append(returned, result)
       /\ IF returned = <<>>
          THEN /\ locals' = [key |-> args.key, otherbytes |-> result]
               /\ pc' = pc
          ELSE /\ locals' = locals
               /\ pc' = "done"
    /\ UNCHANGED <<args, web2>>

NextKey == XorKeyWhile \/ XorKeyDouble \/ XorKeyReturn

FairSpecKey == InitKey /\ [][NextKey]_vars /\ WF_vars(NextKey)

(* C4: for every key K, the empty key included, and every bytestring D,     *)
(* xor_key(K, D) terminates and returns len(D) bytes (D itself under the    *)
(* empty key), and xor_key(K, xor_key(K, D)) = D.                           *)
C4_XorInvolution ==
    /\ <>(pc = "done")
    /\ [](\A n \in 1..Len(returned) : Len(returned[n]) = Len(args.otherbytes))
    /\ [](Len(returned) >= 1 /\ args.key = <<>> => returned[1] = args.otherbytes)
    /\ [](pc = "done" => returned[2] = args.otherbytes)

(***************************************************************************)
(* The words of the model's dictionaries and covers                        *)
(***************************************************************************)
w_zebra == <<"z","e","b","r","a">>

w_a == <<"a">>

w_tea == <<"t","e","a">>

w_word == <<"w","o","r","d">>

w_he == <<"h","e">>

w_aqua == <<"a","q","u","a">>

w_to == <<"t","o">>

w_tree == <<"t","r","e","e">>

w_eye == <<"e","y","e">>

w_last == <<"l","a","s","t">>

w_stone == <<"s","t","o","n","e">>

w_hello == <<"h","e","l","l","o">>

w_world == <<"w","o","r","l","d">>

\* a second pair of groups: lower case, the vowels in the first
LOWER_GROUPA == <<"b","c","d","f","g","h","j","k","l","m","a","e","i","o","u","y">>

LOWER_GROUPB == <<"n","p","q","r","s","t","v","w","x","z">>

(***************************************************************************)
(* recommend_words and make_random_words, called as main calls them        *)
(***************************************************************************)
MaxParity == 4

\* enumeration orders of the dictionary's set; the second holds a word twice,
\* the third is empty
Dictionaries ==
    { <<w_zebra, w_a, w_tea, w_word, w_tree, w_he, w_aqua, w_to, w_last>>,
      <<w_stone, w_tree, w_aqua, w_he, w_to, w_he, w_word, w_a>>,
      <<>> }

\* LOWER_GROUPA with the letter t, which LOWER_GROUPB holds too
SHARED_GROUPA == LOWER_GROUPA \o <<"t">>

\* --groupa and --groupb as main accepts them: together they hold A-Z
GroupPairs ==
    { <<DEFAULT_GROUPA, DEFAULT_GROUPB>>,
      <<LOWER_GROUPA, LOWER_GROUPB>>,
      <<SHARED_GROUPA, LOWER_GROUPB>> }

\* cover text written so far, passed to recommend_words
PartialCovers == {<<>>, w_he, <<"T", "o", " ", "1">>}

InitWords ==
    /\ web2 \in Dictionaries
    /\ returned = Nothing
    /\ \E g \in GroupPairs :
          args \in [parity : SeqsUpTo({"0", "1"}, MaxParity),
                    cover : PartialCovers,
                    groupa : {g[1]}, groupb : {g[2]},
                    vowels : BOOLEAN, small : BOOLEAN, byword : BOOLEAN,
                    random : BOOLEAN]
    /\ args.random => args.cover = <<>>
    /\ pc = IF args.random THEN "make_random_words" ELSE "recommend_words"
    /\ locals = [remaining_parity |-> args.parity, out_string |-> <<>>, pout_total |-> <<>>]

\* main's call of recommend_words
CallRecommendWords ==
    /\ pc = "recommend_words"
    /\ LET found == recommend_words(args.parity, args.cover, args.groupa, args.groupb,
                                    args.vowels, args.small, args.byword, web2)
       IN  /\ locals' = [locals EXCEPT !.pout_total = found]
           /\ returned' = found
    /\ pc' = "done"
    /\ UNCHANGED <<args, web2>>

\* the recommendations of one iteration of make_random_words
Recommended ==
    recommend_words(locals.remaining_parity, <<>>, args.groupa, args.groupb,
                    args.vowels, args.small, args.byword, web2)

\* the test that ends the loop early
QuitsEarly(pout, remaining, small) ==
    pout = <<>> \/ (~ small /\ Len(remaining) <= 3)

\* a variant that forgets to shorten the parity in by-word mode
RemainingAfterKept(remaining, rchoice, byword) ==
    IF byword THEN remaining ELSE Drop(remaining, Len(rchoice[1]))

\* the parity left once rchoice is used
RemainingAfter(remaining, rchoice, byword) ==
    IF byword THEN Drop(remaining, 1) ELSE Drop(remaining, Len(rchoice[1]))

\* an iteration that quits: the left-over parity and the words are printed
RandomWordsQuit ==
    /\ pc = "make_random_words"
    /\ Len(locals.remaining_parity) > 0
    /\ QuitsEarly(Recommended, locals.remaining_parity, args.small)
    /\ locals' = [locals EXCEPT !.pout_total = Recommended]
    /\ returned' = [leftover |-> locals.remaining_parity,
                    words |-> JoinWith(locals.out_string, <<" ">>)]
    /\ pc' = "done"
    /\ UNCHANGED <<args, web2>>

\* an iteration that chooses a word: random.choice is any element
RandomWordsChoose ==
    /\ pc = "make_random_words"
    /\ Len(locals.remaining_parity) > 0
    /\ ~ QuitsEarly(Recommended, locals.remaining_parity, args.small)
    /\ \E n \in 1..Len(Recommended) :
          LET rchoice == Recommended[n] IN
          locals' = [remaining_parity |->
                         RemainingAfter(locals.remaining_parity, rchoice, args.byword),
                     out_string |-> Append(locals.out_string, rchoice[2]),
                     pout_total |-> Recommended]
    /\ UNCHANGED <<pc, args, web2, returned>>

\* the loop's condition fails: the words are printed, no left-over is
RandomWordsExit ==
    /\ pc = "make_random_words"
    /\ ~ (Len(locals.remaining_parity) > 0)
    /\ returned' = [leftover |-> <<>>, words |-> JoinWith(locals.out_string, <<" ">>)]
    /\ pc' = "done"
    /\ UNCHANGED <<args, web2, locals>>

NextWords ==
    \/ CallRecommendWords
    \/ RandomWordsQuit
    \/ RandomWordsChoose
    \/ RandomWordsExit

SpecWords == InitWords /\ [][NextWords]_vars

\* the bit list decode derives from a text under the operation's groups and filters
ArgsTextToBits(text) ==
    textToBits(text, args.groupa, args.groupb, args.vowels, args.small, args.byword)

(* C2: for every target, cover written so far, group pair that holds A-Z,  *)
(* filter setting and dictionary, every candidate (consumed prefix, word,  *)
(* remaining) that recommend_words returns is exact: the bit list decode   *)
(* derives from the word alone, under the same groups and filters, is the  *)
(* consumed prefix, bit for bit.                                           *)
C2_SearchExactness ==
    \A n \in 1..Len(locals.pout_total) :
        ArgsTextToBits(locals.pout_total[n][2]) = Digits(locals.pout_total[n][1])

(* C8: a candidate recorded with k bits already spent and a consumed prefix  *)
(* of n bits has prefix target[k : k+n] and remaining target[k+n :], so that *)
(* prefix and remaining together are target[k :], no bit twice, none lost.   *)
C8_CandidateSplit ==
    (pc = "done" /\ ~ args.random) =>
        LET k == Len(SpentBits(args.cover, args.groupa, args.groupb, args.vowels)) IN
        \A n \in 1..Len(locals.pout_total) :
            LET cand == locals.pout_total[n] IN
            /\ cand[1] = SubSeq(args.parity, k + 1, k + Len(cand[1]))
            /\ cand[3] = SubSeq(args.parity, k + Len(cand[1]) + 1, Len(args.parity))
            /\ cand[1] \o cand[3] = SubSeq(args.parity, k + 1, Len(args.parity))

(* C9: at the start of every iteration of make_random_words and at its exit, *)
(* the bit list decode derives from the space-joined chosen words, followed  *)
(* by the remaining parity, is the original parity.                          *)
C9_RandomizeInvariant ==
    args.random =>
        ArgsTextToBits(JoinWith(locals.out_string, <<" ">>))
            \o Digits(locals.remaining_parity) = Digits(args.parity)

\* no dictionary word satisfies the target: the first search finds nothing
NoWordSatisfies ==
    recommend_words(args.parity, <<>>, args.groupa, args.groupb,
                    args.vowels, args.small, args.byword, web2) = <<>>

\* what C3 says whatever the loop's exits are: every step of the loop either
\* leaves it or strictly shortens the remaining parity, so the words chosen
\* and the bits remaining never exceed the target's length and the loop runs
\* at most Len(args.parity) times
RandomizeCommon ==
    /\ [][pc = "make_random_words" =>
              \/ pc' = "done"
              \/ /\ Len(locals.remaining_parity') < Len(locals.remaining_parity)
                 /\ Len(locals.out_string') = Len(locals.out_string) + 1]_vars
    /\ [](args.random =>
              Len(locals.out_string) + Len(locals.remaining_parity) <= Len(args.parity))
    /\ [](args.random /\ pc = "done" =>
              returned.leftover = locals.remaining_parity)
    /\ [](args.random /\ args.parity = <<>> => locals.out_string = <<>>)
    /\ [](args.random /\ NoWordSatisfies =>
              /\ locals.out_string = <<>>
              /\ pc = "done" => returned.leftover = args.parity)

(* C3 as stated: make_random_words terminates; every iteration that chooses  *)
(* a word strictly shortens the remaining parity; the loop ends exactly when *)
(* the remaining parity is empty or no candidate exists, the remaining       *)
(* parity then being reported as left over; on an empty target, or when no   *)
(* word satisfies the target, no word is chosen.                             *)
C3_EndsOnlyWhenEmptyOrNoCandidate ==
    /\ RandomizeCommon
    /\ [](args.random /\ pc = "done" =>
              locals.remaining_parity = <<>> \/ locals.pout_total = <<>>)
    /\ [][(args.random /\ pc = "make_random_words"
              /\ (locals.remaining_parity = <<>> \/ Recommended = <<>>))
           => pc' = "done"]_vars

(* C3 as amended: the loop also ends when short words are ignored and at     *)
(* most 3 bits remain, candidates or not.                                    *)
C3_RandomizeTerminates ==
    /\ RandomizeCommon
    /\ [](args.random /\ pc = "done" =>
              \/ locals.remaining_parity = <<>>
              \/ locals.pout_total = <<>>
              \/ (~ args.small /\ Len(locals.remaining_parity) <= 3))
    /\ [][(args.random /\ pc = "make_random_words"
              /\ (\/ locals.remaining_parity = <<>>
                  \/ Recommended = <<>>
                  \/ (~ args.small /\ Len(locals.remaining_parity) <= 3)))
           => pc' = "done"]_vars

C3_Witness ==
    /\ pc = "done"
    /\ args.random /\ ~ args.small
    /\ Len(locals.out_string) = 1
    /\ locals.remaining_parity = <<>>

(***************************************************************************)
(* decode, called on a cover text of words                                 *)
(***************************************************************************)
MaxCoverWords == 3

CoverWords == {w_hello, w_to, w_world, w_a, w_eye}

Separators == {<<" ">>, <<",", " ">>}

\* a small image of 4 pixels, 12 low bits
DecodeImage ==
    << << <<255, 0, 1>>, <<2, 255, 128>> >>, << <<1, 1, 255>>, <<254, 254, 254>> >> >>

CoversOf(sep) ==
    {JoinWith(ws, sep) : ws \in UNION {[1..m -> CoverWords] : m \in 1..MaxCoverWords}}

InitDecode ==
    /\ web2 = <<>>
    /\ returned = Nothing
    /\ pc = "decode"
    /\ \E sep \in Separators :
          args \in [cover : CoversOf(sep),
                    image : {DecodeImage},
                    groupa : {DEFAULT_GROUPA}, groupb : {DEFAULT_GROUPB},
                    vowels : BOOLEAN, small : BOOLEAN, byword : BOOLEAN,
                    key : {<<>>}]
    /\ locals = [cover |-> args.cover]

\* decode: the local cover ends as the bit list, the XOR is returned
DecodeCover ==
    /\ pc = "decode"
    /\ locals' = [cover |-> textToBits(args.cover, args.groupa, args.groupb,
                                        args.vowels, args.small, args.byword)]
    /\ returned' = decode(args.cover, args.image, args.groupa, args.groupb,
                          args.vowels, args.small, args.byword, args.key)
    /\ pc' = "done"
    /\ UNCHANGED <<args, web2>>

NextDecode == DecodeCover

SpecDecode == InitDecode /\ [][NextDecode]_vars

\* the words of a text: its maximal runs of letters, in order
RECURSIVE WordsOf(_, _)
WordsOf(s, p) ==
    IF p > Len(s) THEN <<>>
    ELSE LET r == LetterRun(s, p) IN
         IF r = 0 THEN WordsOf(s, p + 1)
         ELSE <<SubSeq(s, p, p + r - 1)>> \o WordsOf(s, p + r)

\* one bit for each word that survives the filters: the group of its first
\* remaining letter
RECURSIVE OneBitPerWord(_, _, _, _, _)
OneBitPerWord(ws, groupa, groupb, vowels, small) ==
    IF ws = <<>> THEN <<>>
    ELSE LET w == IF ~ vowels THEN StripVowels(Head(ws)) ELSE Head(ws)
             survives == (small \/ Len(Head(ws)) > 3) /\ w # <<>>
         IN  (IF ~ survives THEN <<>>
              ELSE IF InClass(w[1], groupa) THEN <<0>>
              ELSE IF InClass(w[1], groupb) THEN <<1>>
              ELSE <<>>)
             \o OneBitPerWord(Tail(ws), groupa, groupb, vowels, small)

\* whether a is b with some of its elements left out
RECURSIVE IsSubsequence(_, _)
IsSubsequence(a, b) ==
    IF a = <<>> THEN TRUE
    ELSE IF b = <<>> THEN FALSE
    ELSE IF Head(a) = Head(b) THEN IsSubsequence(Tail(a), Tail(b))
    ELSE IsSubsequence(a, Tail(b))

(* C10: in by-word mode the bit list decode derives from a cover of words   *)
(* separated by non-letters has exactly one bit for each word that survives *)
(* the filters, the group bit of its first remaining letter, in cover       *)
(* order.  With short words kept that is one bit for every word; with short *)
(* words ignored every word longer than 3 letters gives its bit whatever    *)
(* stands next to it, and no word gives more than one.                      *)
C10_OneBitPerWord ==
    (pc = "done" /\ args.byword) =>
        LET ws == WordsOf(args.cover, 1)
            every == OneBitPerWord(ws, args.groupa, args.groupb, args.vowels, TRUE)
            long == OneBitPerWord(ws, args.groupa, args.groupb, args.vowels, FALSE)
        IN  IF args.small THEN locals.cover = every
            ELSE /\ IsSubsequence(long, locals.cover)
                 /\ Len(locals.cover) <= Len(every)

(***************************************************************************)
(* main: the check of the letter groups, then the operation                *)
(***************************************************************************)
\* 9 low bits 1,1,1,0,0,1,1,0,1; 12 low bits, all 0; 6 low bits
StegoImages ==
    { << << <<255, 1, 3>>, <<0, 128, 1>>, <<255, 0, 1>> >> >>,
      << << <<0, 128, 2>>, <<4, 0, 0>> >>, << <<2, 2, 2>>, <<0, 0, 0>> >> >>,
      << << <<1, 0, 255>>, <<0, 1, 0>> >> >> }

Messages == {<<>>, <<"A">>, <<"o">>}

\* key.encode() of the ASCII keys '', 'k' and 'kZ'
StegoKeys == {<<>>, <<107>>, <<107, 90>>}

\* letter groups that leave out the vowels
CONSONANTS_A == <<"B","C","D","F","G","H","J","K","L","M">>

CONSONANTS_B == <<"N","P","Q","R","S","T","V","W","X","Z">>

MainGroupPairs ==
    { <<DEFAULT_GROUPA, DEFAULT_GROUPB>>,
      <<LOWER_GROUPA, LOWER_GROUPB>>,
      <<CONSONANTS_A, CONSONANTS_B>>,
      <<<<"A","B","C">>, <<"D","E","F">>>>,
      <<DEFAULT_GROUPA, <<>>>> }

MainParities == {<<>>, <<"0">>, <<"1", "0">>}

MainCovers == {<<>>, w_hello \o <<" ">> \o w_to}

InitMain ==
    /\ web2 = <<w_a, w_to, w_he, w_tree, w_last>>
    /\ returned = Nothing
    /\ pc = "main"
    /\ \E g \in MainGroupPairs :
          args \in [operation : {"encode", "decode", "words"},
                    message : {<<"A">>},
                    image : {DecodeImage},
                    key : {<<>>, <<107>>},
                    cover : MainCovers,
                    parity : MainParities,
                    groupa : {g[1]}, groupb : {g[2]},
                    vowels : BOOLEAN, small : {TRUE}, byword : {FALSE},
                    random : BOOLEAN]
    /\ args.operation = "encode" => /\ args.groupa = DEFAULT_GROUPA
                                    /\ args.cover = <<>> /\ args.parity = <<>>
                                    /\ args.vowels /\ ~ args.random
    /\ args.operation = "decode" => args.parity = <<>> /\ ~ args.random
    /\ args.operation = "words" => args.key = <<>>
    /\ args.random => args.cover = <<>>
    /\ locals = [remaining_parity |-> args.parity, out_string |-> <<>>, pout_total |-> <<>>]

\* a variant that throws the vowels out whether they are used or not
GroupDiffNoVowels(groupa, groupb, vowels) ==
    (Range(ascii_uppercase) \ {upper(c) : c \in Range(groupa \o groupb)}) \ VowelSet

\* diff: the letters of A-Z neither group holds, less the vowels when unused
GroupDiff(groupa, groupb, vowels) ==
    LET diff == Range(ascii_uppercase) \ {upper(c) : c \in Range(groupa \o groupb)}
    IN  IF ~ vowels THEN diff \ VowelSet ELSE diff

GroupsMessage == "GroupA and GroupB must cover the entire ASCII alphabet (A-Z)"

\* the check of the groups and the choice of the operation's function
MainCheckGroups ==
    /\ pc = "main"
    /\ IF /\ args.operation # "encode"
          /\ GroupDiff(args.groupa, args.groupb, args.vowels) # {}
       THEN /\ returned' = GroupsMessage
            /\ pc' = "rejected"
       ELSE /\ returned' = returned
            /\ pc' = IF args.operation = "words"
                     THEN (IF args.random THEN "make_random_words" ELSE "recommend_words")
                     ELSE args.operation
    /\ UNCHANGED <<args, web2, locals>>

MainEncode ==
    /\ pc = "encode"
    /\ returned' = encode(args.message, args.image, args.key)
    /\ pc' = "done"
    /\ UNCHANGED <<args, web2, locals>>

MainDecode ==
    /\ pc = "decode"
    /\ returned' = decode(args.cover, args.image, args.groupa, args.groupb,
                          args.vowels, args.small, args.byword, args.key)
    /\ pc' = "done"
    /\ UNCHANGED <<args, web2, locals>>

NextMain ==
    \/ MainCheckGroups
    \/ MainEncode
    \/ MainDecode
    \/ CallRecommendWords
    \/ RandomWordsQuit
    \/ RandomWordsChoose
    \/ RandomWordsExit

SpecMain == InitMain /\ [][NextMain]_vars

\* the union of the groups and, when vowels are ignored, AEIOUY holds A-Z
CoversAlphabet ==
    \A c \in Range(ascii_uppercase) :
        \/ InClass(c, args.groupa)
        \/ InClass(c, args.groupb)
        \/ (~ args.vowels /\ c \in VowelSet)

RunsOperation == pc \in {"decode", "recommend_words", "make_random_words", "done"}

(* C7: a decode or words operation reaches its decode or search step only  *)
(* if GroupA, GroupB and, when vowels are ignored, AEIOUY together hold    *)
(* all of A-Z; otherwise the call is rejected with nothing decoded or      *)
(* searched.  GroupA = ABC with GroupB = DEF is rejected, the default      *)
(* groups are accepted, and encode is never rejected.                      *)
C7_GroupCoverage ==
    /\ [][(pc = "main" /\ args.operation # "encode") =>
              IF CoversAlphabet
              THEN pc' \in {"decode", "recommend_words", "make_random_words"}
              ELSE pc' = "rejected"]_vars
    /\ [](args.operation # "encode" /\ RunsOperation => CoversAlphabet)
    /\ [](pc = "rejected" =>
              /\ args.operation # "encode"
              /\ ~ CoversAlphabet
              /\ returned = GroupsMessage
              /\ locals.pout_total = <<>> /\ locals.out_string = <<>>)
    /\ [][pc = "rejected" => pc' = "rejected"]_vars
    /\ []((/\ args.groupa = <<"A","B","C">>
           /\ args.groupb = <<"D","E","F">>
           /\ args.operation # "encode") => pc \in {"main", "rejected"})
    /\ []((args.groupa = DEFAULT_GROUPA /\ args.groupb = DEFAULT_GROUPB) =>
              pc # "rejected")
    /\ [](args.operation = "encode" => pc # "rejected")

C7_Witness ==
    /\ pc = "done"
    /\ args.operation = "decode"
    /\ args.groupa = CONSONANTS_A
    /\ ~ args.vowels
    /\ args.cover # <<>>

(***************************************************************************)
(* encode, the writing of a cover text that realizes the parity, decode    *)
(***************************************************************************)
\* what the writer appends: a word, or a short word and a word
WrittenWords == {w_a, w_to, w_stone, w_tree, w_to \o <<" ">> \o w_tree}

InitStego ==
    /\ web2 = <<>>
    /\ returned = Nothing
    /\ pc = "encode"
    /\ args \in [message : Messages,
                 image : StegoImages,
                 key : StegoKeys,
                 groupa : {DEFAULT_GROUPA}, groupb : {DEFAULT_GROUPB},
                 vowels : BOOLEAN, small : BOOLEAN, byword : BOOLEAN]
    /\ locals = [parity |-> <<>>, cover |-> <<>>]

\* encode: the parity is printed, or xor_bytes raises IndexError
StegoEncode ==
    /\ pc = "encode"
    /\ IF EncodeBytes(args.message, args.image, args.key) = IndexError
       THEN /\ pc' = "failed"
            /\ locals' = locals
       ELSE /\ pc' = "write"
            /\ locals' = [locals EXCEPT
                             !.parity = encode(args.message, args.image, args.key)]
    /\ UNCHANGED <<args, web2, returned>>

IsPrefix(a, b) == Len(a) <= Len(b) /\ a = SubSeq(b, 1, Len(a))

\* the writer appends to the cover, keeping to the parity: the bits of the
\* cover grow and stay a prefix of the parity's
WriteWord ==
    /\ pc = "write"
    /\ \E w \in WrittenWords :
          LET longer == IF locals.cover = <<>> THEN w ELSE locals.cover \o <<" ">> \o w
          IN  /\ Len(ArgsTextToBits(longer)) > Len(ArgsTextToBits(locals.cover))
              /\ IsPrefix(ArgsTextToBits(longer), Digits(locals.parity))
              /\ locals' = [locals EXCEPT !.cover = longer]
    /\ UNCHANGED <<pc, args, web2, returned>>

\* decode of the cover written so far, with the image and key of encode
StegoDecode ==
    /\ pc = "write"
    /\ returned' = decode(locals.cover, args.image, args.groupa, args.groupb,
                          args.vowels, args.small, args.byword, args.key)
    /\ pc' = "done"
    /\ UNCHANGED <<args, web2, locals>>

NextStego ==
    \/ StegoEncode
    \/ WriteWord
    \/ StegoDecode

SpecStego == InitStego /\ [][NextStego]_vars

\* the image holds at least 8 channel low bits for each byte of the message
ImageSupplies == Len(ChannelLowBits(args.image)) >= 8 * Len(args.message)

\* the cover realizes exactly the parity under the groups and filters
CoverRealizesParity == ArgsTextToBits(locals.cover) = Digits(locals.parity)

(* C1: for an ASCII message, an image that supplies at least 8 low bits for *)
(* each of its bytes, an optional key and any filter setting, encode        *)
(* returns a parity and, when the cover realizes exactly that parity under *)
(* the groups and filters, decode of the cover with the same image, groups, *)
(* filters and key returns exactly the bytes of the message.                *)
C1_RoundTrip ==
    /\ ImageSupplies => pc # "failed"
    /\ (pc = "done" /\ ImageSupplies /\ CoverRealizesParity) =>
           returned = get_stream_from_text(args.message)

C1_Witness ==
    /\ pc = "done"
    /\ args.message # <<>>
    /\ Len(args.key) = 2
    /\ ~ args.small
    /\ CoverRealizesParity
    /\ returned = get_stream_from_text(args.message)

====
